---- MODULE Spec2Model ----
(***************************************************************************)
(* Client side of the blobstash docstore: the process-wide baseline cache  *)
(* (_DOC_CACHE), tracked documents (_Document), identities (ID) and the    *)
(* Collection operations insert / update / get_by_id / delete, together    *)
(* with the remote service they talk to through Client.request.            *)
(*                                                                         *)
(* A JSON value is a record [t, v]:                                        *)
(*   "abs"  the key is not in the mapping                                  *)
(*   "int"  the scalar v                                                   *)
(*   "tok"  the reference token string "@filetree/ref:<v>"                 *)
(*   "att"  an Attachment object whose pointer is the token v              *)
(*   "dict" the mapping {"n": v}, held by value                            *)
(*   "ref"  a reference to the mapping object owned by document object v   *)
(*          under the same key; its content {"n": c} is heap[v][key]       *)
(***************************************************************************)
EXTENDS Integers, Sequences, FiniteSets, TLC

\* ---------------------------------------------------------------- bounds
\* The number of operations in a run.
MaxOps == 5

DocObjs == {1, 2}
Keys == {"a", "b"}
Ids == {1, 2}

\* ---------------------------------------------------------------- values
Abs == [t |-> "abs", v |-> 0]
IntV(n) == [t |-> "int", v |-> n]
Tok == [t |-> "tok", v |-> 1]
Att == [t |-> "att", v |-> 1]
DictV(c) == [t |-> "dict", v |-> c]
Ref(d) == [t |-> "ref", v |-> d]

EmptyBody == [k \in Keys |-> Abs]
EmptyHeap == [k \in Keys |-> 0]

\* The values the caller assigns under each key: scalars under "a"; a
\* reference token (what add_attachment returns) or a new mapping under "b".
AssignVals(k) == IF k = "a" THEN {IntV(1), IntV(2)} ELSE {Tok, DictV(1)}

\* A document without the "_id" key: doc.get("_id") is None.
None == [id |-> 0, version |-> 0]

\* docs[d]     document object d: kind "none" (no object), "dict" (plain
\*             dict) or "doc" (_Document); its "_id" value; its other keys
\* heap[d][k]  content c of the nested mapping {"n": c} that d holds under k
\* _DOC_CACHE  the baseline cache, a mapping from IDKey to a body
\* srv[i]      the document the service stores under id i
\* req         the request the last operation sent, NoReq if it sent none
\* status      the outcome of that request
\* exc         the exception the last operation raised, "none" if it returned
\* nops        the number of operations so far
VARIABLES docs, heap, _DOC_CACHE, srv, req, status, exc, fetched, nops

\* The state of the specifications of single functions and of the two
\* threads; each specification leaves the others' variables at 0.
\* tree, filled     a payload and what _fill_pointers makes of it
\* qargs, params    the arguments of a query and the request parameters
\* pager            a pagination iterator and the pages it reads
\* idpair, idcmp    two identities and the results of comparing them
\* pc, inflight     where each thread is in Collection.update, and its request
VARIABLES tree, filled, qargs, params, pager, idpair, idcmp, pc, inflight

main == <<docs, heap, _DOC_CACHE, srv, req, status, exc, fetched, nops>>

vars == <<docs, heap, _DOC_CACHE, srv, req, status, exc, fetched, nops,
          tree, filled, qargs, params, pager, idpair, idcmp, pc, inflight>>

FillIdle == tree = 0 /\ filled = 0

QueryIdle == qargs = 0 /\ params = 0

PagesIdle == pager = 0

IDIdle == idpair = 0 /\ idcmp = 0

ThreadsIdle == pc = 0 /\ inflight = 0

MainIdle ==
    /\ docs = 0 /\ heap = 0 /\ _DOC_CACHE = 0 /\ srv = 0 /\ req = 0
    /\ status = 0 /\ exc = 0 /\ fetched = 0 /\ nops = 0

\* fetched[d]: the payload document object d was built from by get_by_id, for
\* as long as d has only had keys assigned and removed since.
NotFetched == [ok |-> FALSE, body |-> EmptyBody]

NoReq == [method |-> "none", path |-> 0, ifmatch |-> 0, json |-> EmptyBody, data |-> {}]

\* ---------------------------------------------------------------- ID
\* ID.__hash__ / ID.__eq__: an identity is looked up by (version, id).
IDKey(i) == <<i.version, i.id>>

\* ---------------------------------------------------------------- object graphs
\* The value of a mapping as read now: a reference is followed to the object.
Contents(body) ==
    [k \in Keys |-> IF body[k].t = "ref" THEN DictV(heap[body[k].v][k]) ELSE body[k]]

\* copy.deepcopy: every nested object is copied, the result shares nothing.
ShallowCopy(body) == body

DeepCopy(body) == Contents(body)

\* What the cache holds under a key, read now.
CacheView(key) == Contents(_DOC_CACHE[key])

\* JSONEncoder: an Attachment is written as its pointer; then json.loads.
EncodeValue(x) == IF x.t = "att" THEN [t |-> "tok", v |-> x.v] ELSE x

Encode(body) == [k \in Keys |-> EncodeValue(Contents(body)[k])]

\* _fill_pointers on one value of a fetched payload.
FillValue(d, x) ==
    IF x.t = "tok" THEN [t |-> "att", v |-> x.v]
    ELSE IF x.t = "dict" THEN Ref(d)
    ELSE x

\* ---------------------------------------------------------------- dict
CacheKeep(c, key) == c

CacheDel(c, key) == [x \in DOMAIN c \ {key} |-> c[x]]

CacheSet(c, key, val) == [x \in DOMAIN c \cup {key} |-> IF x = key THEN val ELSE c[x]]

\* The service holds document 1 at version 1 when the client starts; id 2
\* is the id it gives to the first created document.
StoredBodies ==
    {[k \in Keys |-> IF k = "a" THEN IntV(1) ELSE x] : x \in {Abs, Tok, DictV(1)}}

Init ==
    /\ docs = [d \in DocObjs |-> [kind |-> "none", _id |-> None, body |-> EmptyBody]]
    /\ heap = [d \in DocObjs |-> EmptyHeap]
    /\ _DOC_CACHE = <<>>
    /\ \E b \in StoredBodies :
          srv = [i \in Ids |-> IF i = 1 THEN [st |-> "live", ver |-> 1, body |-> b]
                                       ELSE [st |-> "free", ver |-> 0, body |-> EmptyBody]]
    /\ req = NoReq
    /\ status = "none"
    /\ exc = "none"
    /\ fetched = [d \in DocObjs |-> NotFetched]
    /\ nops = 0
    /\ FillIdle /\ QueryIdle /\ PagesIdle /\ IDIdle /\ ThreadsIdle

\* One more operation of the run.
Tick ==
    /\ nops < MaxOps
    /\ nops' = nops + 1
    /\ UNCHANGED <<tree, filled, qargs, params, pager, idpair, idcmp, pc, inflight>>

\* doc = {}: the caller builds a plain dict.
New(d) ==
    /\ Tick
    /\ docs' = [docs EXCEPT ![d] = [kind |-> "dict", _id |-> None, body |-> EmptyBody]]
    /\ heap' = [heap EXCEPT ![d] = EmptyHeap]
    /\ fetched' = [fetched EXCEPT ![d] = NotFetched]
    /\ req' = NoReq
    /\ status' = "none"
    /\ exc' = "none"
    /\ UNCHANGED <<_DOC_CACHE, srv>>

\* ---------------------------------------------------------------- _Document
\* _Document.checkpoint past the identity test: the cache it leaves.
CheckpointAlways(d) ==
    CacheSet(_DOC_CACHE, IDKey(docs[d]._id), DeepCopy(docs[d].body))

Checkpointed(d) ==
    IF IDKey(docs[d]._id) \in DOMAIN _DOC_CACHE
    THEN _DOC_CACHE
    ELSE CacheSet(_DOC_CACHE, IDKey(docs[d]._id), DeepCopy(docs[d].body))

\* doc.checkpoint()
Checkpoint(d) ==
    /\ Tick
    /\ docs[d].kind = "doc"
    /\ IF docs[d]._id = None
       THEN /\ exc' = "MissingIDError"
            /\ UNCHANGED _DOC_CACHE
       ELSE /\ exc' = "none"
            /\ _DOC_CACHE' = Checkpointed(d)
    /\ req' = NoReq
    /\ status' = "none"
    /\ UNCHANGED <<docs, heap, srv, fetched>>

\* _Document.__setitem__ raises before dict.__setitem__ when checkpoint does.
SetItemNeverRaises(d) == FALSE

SetItemRaises(d) == docs[d].kind = "doc" /\ docs[d]._id = None

\* doc[k] = v for a key other than "_id"; a plain dict has no checkpoint.
SetItem(d, k, v) ==
    /\ Tick
    /\ docs[d].kind # "none"
    /\ IF SetItemRaises(d)
       THEN /\ exc' = "MissingIDError"
            /\ UNCHANGED <<docs, heap, _DOC_CACHE>>
       ELSE /\ exc' = "none"
            /\ _DOC_CACHE' = IF docs[d].kind = "doc" THEN Checkpointed(d) ELSE _DOC_CACHE
            /\ docs' = [docs EXCEPT ![d].body[k] = IF v.t = "dict" THEN Ref(d) ELSE v]
            /\ heap' = [heap EXCEPT ![d][k] = IF v.t = "dict" THEN v.v ELSE 0]
    /\ req' = NoReq
    /\ status' = "none"
    /\ UNCHANGED <<srv, fetched>>

\* del doc[k]: dict.__delitem__, which _Document does not override.
DelItem(d, k) ==
    /\ Tick
    /\ docs[d].kind # "none"
    /\ docs[d].body[k] # Abs
    /\ docs' = [docs EXCEPT ![d].body[k] = Abs]
    /\ heap' = [heap EXCEPT ![d][k] = 0]
    /\ req' = NoReq
    /\ status' = "none"
    /\ exc' = "none"
    /\ UNCHANGED <<_DOC_CACHE, srv, fetched>>

\* doc[k]["n"] = c: an in-place change of a nested mapping.
MutateNested(d, k, c) ==
    /\ Tick
    /\ docs[d].kind # "none"
    /\ docs[d].body[k] = Ref(d)
    /\ heap[d][k] # c
    /\ heap' = [heap EXCEPT ![d][k] = c]
    /\ fetched' = [fetched EXCEPT ![d] = NotFetched]
    /\ req' = NoReq
    /\ status' = "none"
    /\ exc' = "none"
    /\ UNCHANGED <<docs, _DOC_CACHE, srv>>

\* ---------------------------------------------------------------- jsonpatch
\* jsonpatch.make_patch on one key: the operations that turn x into y. Two
\* mappings are compared member by member, anything else by equality; an
\* Attachment object is not equal to a token string.
CompareValues(k, x, y) ==
    IF x = y THEN {}
    ELSE IF x = Abs THEN {[op |-> "add", path |-> <<k>>, value |-> y]}
    ELSE IF y = Abs THEN {[op |-> "remove", path |-> <<k>>, value |-> Abs]}
    ELSE IF x.t = "dict" /\ y.t = "dict"
         THEN {[op |-> "replace", path |-> <<k, "n">>, value |-> IntV(y.v)]}
    ELSE {[op |-> "replace", path |-> <<k>>, value |-> y]}

MakePatch(src, dst) == UNION {CompareValues(k, src[k], dst[k]) : k \in Keys}

\* JSON Patch applied to one key of a mapping.
ApplyValue(k, x, ops) ==
    IF \E o \in ops : o.path = <<k>>
    THEN (CHOOSE o \in ops : o.path = <<k>>).value
    ELSE IF x.t = "dict" /\ \E o \in ops : o.path = <<k, "n">>
         THEN DictV((CHOOSE o \in ops : o.path = <<k, "n">>).value.v)
    ELSE x

ApplyPatch(body, ops) == [k \in Keys |-> ApplyValue(k, body[k], ops)]

\* ---------------------------------------------------------------- remote service
\* The answer of Client.request: "neterr" when the request never arrives,
\* "gone" for a document that does not exist, "conflict" when If-Match is
\* given and differs from the stored version (412), otherwise "ok".
ServerStatus(r, net) ==
    IF net THEN "neterr"
    ELSE IF r.path = 0 THEN "ok"
    ELSE IF srv[r.path].st # "live" THEN "gone"
    ELSE IF r.ifmatch # 0 /\ r.ifmatch # srv[r.path].ver THEN "conflict"
    ELSE "ok"

\* The id the service gives to a created document.
FreeId == CHOOSE i \in Ids : srv[i].st = "free" /\ \A j \in Ids : srv[j].st = "free" => i <= j

\* The id the request is about.
Target(r) == IF r.path = 0 THEN FreeId ELSE r.path

\* The stored documents after the request.
ServerNext(r, net) ==
    IF ServerStatus(r, net) # "ok" \/ r.method = "GET" THEN srv
    ELSE IF r.method = "DELETE"
         THEN [srv EXCEPT ![r.path] = [st |-> "gone", ver |-> 0, body |-> EmptyBody]]
    ELSE IF r.path = 0
         THEN [srv EXCEPT ![FreeId] = [st |-> "live", ver |-> 1, body |-> r.json]]
    ELSE IF r.method = "PATCH"
         THEN [srv EXCEPT ![r.path].ver = @ + 1, ![r.path].body = ApplyPatch(@, r.data)]
    ELSE [srv EXCEPT ![r.path].ver = @ + 1, ![r.path].body = r.json]

\* The service has an id left for a created document.
InBounds(r) == r.path = 0 => \E i \in Ids : srv[i].st = "free"

\* ---------------------------------------------------------------- Collection
\* The If-Match header of an update: the version of the document's identity.
IfMatchOmitted(_id) == 0

IfMatch(_id) == _id.version

\* update with a baseline: PATCH of the diff to the document's path.
PatchRequest(_id, ops) ==
    [method |-> "PATCH", path |-> _id.id, ifmatch |-> IfMatch(_id),
     json |-> EmptyBody, data |-> ops]

\* update without a baseline: POST of the body to the document's path.
FullBodyAsPatch(_id, body) ==
    [method |-> "PATCH", path |-> _id.id, ifmatch |-> IfMatch(_id),
     json |-> EmptyBody, data |-> MakePatch(EmptyBody, body)]

FullBodyRequest(_id, body) ==
    [method |-> "POST", path |-> _id.id, ifmatch |-> IfMatch(_id),
     json |-> body, data |-> {}]

\* The request Collection.update sends for document object d.
UpdateRequest(d) ==
    IF IDKey(docs[d]._id) \in DOMAIN _DOC_CACHE
    THEN PatchRequest(docs[d]._id,
                      MakePatch(CacheView(IDKey(docs[d]._id)), Encode(docs[d].body)))
    ELSE FullBodyRequest(docs[d]._id, Encode(docs[d].body))

\* jsonpatch compares two values that are not both mappings by equality in
\* its older releases and by json.dumps of each in its newer ones, which
\* raises TypeError on an Attachment object of the baseline.
MakePatchMayRaise(d) ==
    /\ IDKey(docs[d]._id) \in DOMAIN _DOC_CACHE
    /\ \E k \in Keys : /\ CacheView(IDKey(docs[d]._id))[k].t = "att"
                        /\ docs[d].body[k] # Abs

\* ID.inject(resp) and the lines after it: the identity of the response goes
\* into the document and a copy of the body into the cache.
Injected(d, r, net, c) ==
    LET doc_id == [id |-> Target(r), version |-> ServerNext(r, net)[Target(r)].ver]
    IN  /\ docs' = [docs EXCEPT ![d]._id = doc_id]
        /\ _DOC_CACHE' = CacheSet(c, IDKey(doc_id), DeepCopy(docs[d].body))

\* del doc["_id"] at the start of update: what the document holds under
\* "_id" when update raises after it.
IdKept(d) == docs[d]._id

IdDeleted(d) == None

\* Collection.update(doc)
Update(d, net) ==
    /\ Tick
    /\ docs[d].kind # "none"
    /\ IF docs[d]._id = None
       THEN /\ exc' = "MissingIDError"
            /\ req' = NoReq
            /\ status' = "none"
            /\ UNCHANGED <<docs, _DOC_CACHE, srv, fetched>>
       ELSE LET r == UpdateRequest(d)
                c == IF r.method = "PATCH"
                     THEN CacheDel(_DOC_CACHE, IDKey(docs[d]._id))
                     ELSE _DOC_CACHE
            IN  /\ fetched' = [fetched EXCEPT ![d] = NotFetched]
                /\ \/ /\ MakePatchMayRaise(d)
                      /\ exc' = "TypeError"
                      /\ req' = NoReq
                      /\ status' = "none"
                      /\ docs' = [docs EXCEPT ![d]._id = IdDeleted(d)]
                      /\ UNCHANGED <<_DOC_CACHE, srv>>
                   \/ /\ req' = r
                      /\ status' = ServerStatus(r, net)
                      /\ srv' = ServerNext(r, net)
                      /\ IF ServerStatus(r, net) = "ok"
                         THEN /\ exc' = "none"
                              /\ Injected(d, r, net, c)
                         ELSE /\ exc' = "TransportError"
                              /\ docs' = [docs EXCEPT ![d]._id = IdDeleted(d)]
                              /\ _DOC_CACHE' = c
    /\ UNCHANGED heap

\* "_id" in doc and isinstance(doc["_id"], ID)
NeverCarriesID(d) == FALSE

CarriesID(d) == docs[d]._id # None

\* Collection.insert(doc)
Insert(d, net) ==
    /\ docs[d].kind # "none"
    /\ IF CarriesID(d)
       THEN Update(d, net)
       ELSE LET r == [method |-> "POST", path |-> 0, ifmatch |-> 0,
                      json |-> Encode(docs[d].body), data |-> {}]
            IN  /\ InBounds(r)
                /\ req' = r
                /\ status' = ServerStatus(r, net)
                /\ srv' = ServerNext(r, net)
                /\ IF ServerStatus(r, net) = "ok"
                   THEN /\ exc' = "none"
                        /\ Injected(d, r, net, _DOC_CACHE)
                   ELSE /\ exc' = "TransportError"
                        /\ UNCHANGED <<docs, _DOC_CACHE>>
                /\ fetched' = [fetched EXCEPT ![d] = NotFetched]
                /\ UNCHANGED heap
                /\ Tick

\* doc = Collection.get_by_id(_id)
GetById(d, i) ==
    LET r == [method |-> "GET", path |-> i, ifmatch |-> 0, json |-> EmptyBody, data |-> {}]
    IN  /\ Tick
        /\ req' = r
        /\ status' = ServerStatus(r, FALSE)
        /\ IF ServerStatus(r, FALSE) = "ok"
           THEN /\ exc' = "none"
                /\ docs' = [docs EXCEPT ![d] =
                      [kind |-> "doc",
                       _id |-> [id |-> i, version |-> srv[i].ver],
                       body |-> [k \in Keys |-> FillValue(d, srv[i].body[k])]]]
                /\ heap' = [heap EXCEPT ![d] =
                      [k \in Keys |-> IF srv[i].body[k].t = "dict"
                                      THEN srv[i].body[k].v ELSE 0]]
                /\ fetched' = [fetched EXCEPT ![d] = [ok |-> TRUE, body |-> srv[i].body]]
           ELSE /\ exc' = "TransportError"
                /\ UNCHANGED <<docs, heap, fetched>>
        /\ UNCHANGED <<_DOC_CACHE, srv>>

\* The request Collection.delete sends for the id i.
DeleteOfCollection(i) ==
    [method |-> "DELETE", path |-> 0, ifmatch |-> 0, json |-> EmptyBody, data |-> {}]

DeleteRequest(i) ==
    [method |-> "DELETE", path |-> i, ifmatch |-> 0, json |-> EmptyBody, data |-> {}]

\* Collection.delete(doc) with a document
Delete(d) ==
    /\ Tick
    /\ docs[d].kind # "none"
    /\ IF docs[d]._id = None
       THEN /\ exc' = "MissingIDError"
            /\ req' = NoReq
            /\ status' = "none"
            /\ UNCHANGED srv
       ELSE LET r == DeleteRequest(docs[d]._id.id)
            IN  /\ req' = r
                /\ status' = ServerStatus(r, FALSE)
                /\ srv' = ServerNext(r, FALSE)
                /\ exc' = IF ServerStatus(r, FALSE) = "ok" THEN "none" ELSE "TransportError"
    /\ UNCHANGED <<docs, heap, _DOC_CACHE, fetched>>

\* Collection.delete(x) with an ID object or an id string for the id i
DeleteArg(i, form) ==
    LET r == DeleteRequest(i)
    IN  /\ Tick
        /\ req' = r
        /\ status' = ServerStatus(r, FALSE)
        /\ srv' = ServerNext(r, FALSE)
        /\ exc' = IF ServerStatus(r, FALSE) = "ok" THEN "none" ELSE "TransportError"
        /\ UNCHANGED <<docs, heap, _DOC_CACHE, fetched>>

\* The lists of id strings the caller passes to delete.
IdLists == {<<1>>, <<1, 2>>, <<2, 1>>}

\* Collection.delete(l) with a list: docs is bound only when the argument
\* is not a list, so the loop header raises UnboundLocalError.
DeleteList(l) ==
    /\ Tick
    /\ exc' = "UnboundLocalError"
    /\ req' = NoReq
    /\ status' = "none"
    /\ UNCHANGED <<docs, heap, _DOC_CACHE, srv, fetched>>

\* The arguments that are not mappings.
NonDocs == {"list", "str", "ID"}

\* Collection.insert(x) with x not a dict
InsertArg(x) ==
    /\ Tick
    /\ exc' = "NotADocumentError"
    /\ req' = NoReq
    /\ status' = "none"
    /\ UNCHANGED <<docs, heap, _DOC_CACHE, srv, fetched>>

\* Collection.update(x) with x not a dict: x.get raises AttributeError.
UpdateArg(x) ==
    /\ Tick
    /\ exc' = "AttributeError"
    /\ req' = NoReq
    /\ status' = "none"
    /\ UNCHANGED <<docs, heap, _DOC_CACHE, srv, fetched>>

\* doc["_id"] = _id after a failed update, _id being the identity the
\* document held (the one of the request): no checkpoint for this key.
RestoreId(d) ==
    /\ Tick
    /\ docs[d].kind # "none"
    /\ docs[d]._id = None
    /\ exc = "TransportError"
    /\ req.method \in {"PATCH", "POST"}
    /\ req.path # 0
    /\ docs' = [docs EXCEPT ![d]._id = [id |-> req.path, version |-> req.ifmatch]]
    /\ exc' = "none"
    /\ req' = NoReq
    /\ status' = "none"
    /\ UNCHANGED <<heap, _DOC_CACHE, srv, fetched>>

Next ==
    \/ \E d \in DocObjs : New(d)
    \/ \E d \in DocObjs : Checkpoint(d)
    \/ \E d \in DocObjs, k \in Keys : \E v \in AssignVals(k) : SetItem(d, k, v)
    \/ \E d \in DocObjs, k \in Keys : DelItem(d, k)
    \/ \E d \in DocObjs, k \in Keys, c \in {1, 2} : MutateNested(d, k, c)
    \/ \E d \in DocObjs, net \in BOOLEAN : Update(d, net)
    \/ \E d \in DocObjs, net \in BOOLEAN : Insert(d, net)
    \/ \E d \in DocObjs, i \in Ids : GetById(d, i)
    \/ \E d \in DocObjs : Delete(d)
    \/ \E i \in Ids, form \in {"ID", "str"} : DeleteArg(i, form)
    \/ \E l \in IdLists : DeleteList(l)
    \/ \E x \in NonDocs : InsertArg(x)
    \/ \E x \in NonDocs : UpdateArg(x)
    \/ \E d \in DocObjs : RestoreId(d)

Spec == Init /\ [][Next]_vars

\* ---------------------------------------------------------------- claims
HasId(d) == docs[d].kind # "none" /\ docs[d]._id # None

Baselined(d) == IDKey(docs[d]._id) \in DOMAIN _DOC_CACHE

\* C1: a document obtained by a fetch, changed by key assignments and key
\* removals only, then passed to update: the request is a patch, it has
\* operations only for the fields that differ from the body as fetched, and
\* applied to the body as fetched it gives the document's current body.
\* Stated for the documents fetched without an attachment (C5 is about those
\* with one).
C1_PatchOfChangedFields ==
    [][\A d \in DocObjs, net \in BOOLEAN :
          (/\ HasId(d)
           /\ fetched[d].ok
           /\ \A k \in Keys : fetched[d].body[k] # Tok
           /\ Encode(docs[d].body) # fetched[d].body
           /\ Update(d, net))
          => /\ req'.method = "PATCH"
             /\ \A o \in req'.data :
                   fetched[d].body[o.path[1]] # Encode(docs[d].body)[o.path[1]]
             /\ ApplyPatch(fetched[d].body, req'.data) = Encode(docs[d].body)]_vars

\* C2: update of a document whose identity has no baseline computes no diff
\* and sends the current body, without the identity key, as a POST to the
\* document's path.
C2_FullBodyWithoutBaseline ==
    [][\A d \in DocObjs, net \in BOOLEAN :
          (HasId(d) /\ ~Baselined(d) /\ Update(d, net))
          => /\ req'.method = "POST"
             /\ req'.path = docs[d]._id.id
             /\ req'.json = Encode(docs[d].body)
             /\ req'.data = {}]_vars

\* A full-body update of a changed document has been accepted.
C2_Witness ==
    /\ req.method = "POST"
    /\ req.path # 0
    /\ req.json # EmptyBody
    /\ status = "ok"

\* C3: every request of update carries If-Match equal to the version of the
\* identity the document held, and an update from a document whose version
\* is not the stored one leaves the stored documents as they were.
C3_IfMatchIsHeldVersion ==
    [][\A d \in DocObjs, net \in BOOLEAN :
          (HasId(d) /\ Update(d, net) /\ req'.method # "none")
          => /\ req'.method \in {"PATCH", "POST"}
             /\ req'.ifmatch = docs[d]._id.version
             /\ (docs[d]._id.version # srv[docs[d]._id.id].ver
                   => srv' = srv /\ status' # "ok")]_vars

\* A patch sent from a stale document has been rejected.
C3_Witness ==
    /\ req.method = "PATCH"
    /\ status = "conflict"
    /\ srv[req.path].st = "live"
    /\ req.ifmatch < srv[req.path].ver

\* C4: a rejected version precondition makes update fail with a
\* VersionConflict error, distinct from a transport error.
C4_ConflictIsDistinctError ==
    status = "conflict" => exc = "VersionConflict"

\* C5: on the patch path, a fetched document that holds an attachment handle
\* in a field the caller did not change gets a patch with no operation for
\* that field.
C5_NoOperationForUnchangedHandle ==
    [][\A d \in DocObjs, net \in BOOLEAN, k \in Keys :
          (/\ HasId(d)
           /\ Baselined(d)
           /\ fetched[d].ok
           /\ fetched[d].body[k] = Tok
           /\ docs[d].body[k] = Att
           /\ Update(d, net))
          => /\ req'.method = "PATCH"
             /\ \A o \in req'.data : o.path[1] # k]_vars

\* C6: the baseline cache never holds two entries for the same document id.
C6_OneEntryPerId ==
    \A x \in DOMAIN _DOC_CACHE, y \in DOMAIN _DOC_CACHE : x[2] = y[2] => x = y

\* The entries the cache holds for document id i.
EntriesOf(i) == {<<x, _DOC_CACHE[x]>> : x \in {y \in DOMAIN _DOC_CACHE : y[2] = i}}

C8_FirstAssignmentStoresBaseline ==
    [][\A d \in DocObjs, k \in Keys :
          (/\ docs[d].kind = "doc"
           /\ HasId(d)
           /\ (Checkpoint(d) \/ \E v \in AssignVals(k) : SetItem(d, k, v)))
          => IF Baselined(d)
             THEN _DOC_CACHE' = _DOC_CACHE
             ELSE /\ DOMAIN _DOC_CACHE' = DOMAIN _DOC_CACHE \cup {IDKey(docs[d]._id)}
                  /\ \A x \in DOMAIN _DOC_CACHE : _DOC_CACHE'[x] = _DOC_CACHE[x]
                  /\ CacheView(IDKey(docs[d]._id))' = Contents(docs[d].body)]_vars

\* A fetched document has had both keys changed and its baseline is still
\* the body as fetched.
C8_Witness ==
    \E d \in DocObjs :
       /\ docs[d].kind = "doc"
       /\ HasId(d)
       /\ Baselined(d)
       /\ fetched[d].ok
       /\ req = NoReq
       /\ \A k \in Keys : /\ CacheView(IDKey(docs[d]._id))[k] # Contents(docs[d].body)[k]
                          /\ EncodeValue(CacheView(IDKey(docs[d]._id))[k]) = fetched[d].body[k]

\* C9: after a successful insert or update the document carries the identity
\* the service returned and the cache holds, under it, the document's body;
\* and an operation that sends no write request leaves what every entry
\* holds as it is, also when it changes a nested value in place.
C9_FreshIndependentBaseline ==
    [][/\ \A d \in DocObjs, net \in BOOLEAN :
             ((Insert(d, net) \/ Update(d, net)) /\ status' = "ok")
             => /\ LET i == IF req'.path = 0 THEN FreeId ELSE req'.path
                   IN  /\ docs'[d]._id = [id |-> i, version |-> srv'[i].ver]
                       /\ srv'[i].st = "live"
                /\ IDKey(docs'[d]._id) \in DOMAIN _DOC_CACHE'
                /\ CacheView(IDKey(docs[d]._id))' = Contents(docs[d].body)'
       /\ (req'.method \in {"none", "GET", "DELETE"}
             => \A x \in DOMAIN _DOC_CACHE \cap DOMAIN _DOC_CACHE' :
                   CacheView(x)' = CacheView(x))]_vars

\* A nested value of an inserted plain dict was changed in place after the
\* insert; the baseline still holds the value inserted.
C9_Witness ==
    \E d \in DocObjs :
       /\ docs[d].kind = "dict"
       /\ HasId(d)
       /\ Baselined(d)
       /\ docs[d].body["b"] = Ref(d)
       /\ heap[d]["b"] = 2
       /\ CacheView(IDKey(docs[d]._id))["b"] = DictV(1)

\* C10: update, checkpoint and an assignment of a key of a _Document fail
\* with MissingIDError when the document has no identity; no request is
\* sent, and the cache, the document and the service are unchanged.
C10_MissingIdentity ==
    [][\A d \in DocObjs, net \in BOOLEAN, k \in Keys :
          (/\ docs[d].kind # "none"
           /\ docs[d]._id = None
           /\ \/ Update(d, net)
              \/ docs[d].kind = "doc" /\ Checkpoint(d)
              \/ docs[d].kind = "doc" /\ \E v \in AssignVals(k) : SetItem(d, k, v))
          => /\ exc' = "MissingIDError"
             /\ req' = NoReq
             /\ UNCHANGED <<docs, heap, _DOC_CACHE, srv>>]_vars

\* An operation on a tracked document without identity has failed.
C10_Witness ==
    /\ exc = "MissingIDError"
    /\ \E d \in DocObjs : /\ docs[d].kind = "doc"
                          /\ docs[d]._id = None
                          /\ docs[d].body # EmptyBody

\* C11: insert and update called with an argument that is not a mapping
\* (a list, a string, an ID) fail with NotADocumentError and send nothing.
\* update has no such test: it calls doc.get on the argument, which raises
\* AttributeError.
C11_NotADocumentForNonMappings ==
    [][\A x \in NonDocs :
          (InsertArg(x) \/ UpdateArg(x))
          => /\ exc' = "NotADocumentError"
             /\ req' = NoReq]_vars

\* C12: delete of a document, of an ID or of an id string sends one DELETE
\* for that id and leaves the cache as it was; an update that follows the
\* delete, of a document that holds the deleted id and whose baseline is
\* in the cache, sends a PATCH.
C12_DeleteLeavesCache ==
    [][/\ \A d \in DocObjs :
             (Delete(d) /\ HasId(d))
             => /\ req'.method = "DELETE"
                /\ req'.path = docs[d]._id.id
                /\ _DOC_CACHE' = _DOC_CACHE
                /\ docs' = docs
       /\ \A i \in Ids, form \in {"ID", "str"} :
             DeleteArg(i, form)
             => /\ req'.method = "DELETE"
                /\ req'.path = i
                /\ _DOC_CACHE' = _DOC_CACHE
                /\ docs' = docs
       /\ \A d \in DocObjs, net \in BOOLEAN :
             (/\ req.method = "DELETE"
              /\ status = "ok"
              /\ HasId(d)
              /\ docs[d]._id.id = req.path
              /\ Baselined(d)
              /\ Update(d, net)
              /\ exc' # "TypeError")
             => req'.method = "PATCH"]_vars

\* A PATCH was sent for a document the service no longer has: its baseline
\* outlived the delete.
C12_Witness ==
    /\ req.method = "PATCH"
    /\ status = "gone"
    /\ srv[req.path].st # "live"

\* C17: insert of a document that carries an identity is update of that
\* document: the step is a step of update, and no POST to the collection
\* path is sent.
C17_InsertWithIdIsUpdate ==
    [][\A d \in DocObjs, net \in BOOLEAN :
          (Insert(d, net) /\ HasId(d))
          => /\ Update(d, net)
             /\ ~(req'.method = "POST" /\ req'.path = 0)]_vars

\* A document that carried an identity was sent as a patch of its
\* document path and holds the new version: what insert of it results in.
C17_Witness ==
    /\ req.method = "PATCH"
    /\ req.path # 0
    /\ status = "ok"
    /\ \E d \in DocObjs : /\ HasId(d)
                          /\ docs[d]._id = [id |-> req.path, version |-> srv[req.path].ver]
                          /\ Baselined(d)

\* C18: delete called with a list sends a DELETE for each element in
\* order, so it ends without error and the last request is the DELETE of
\* the last element.
C18_DeleteOfList ==
    [][\A l \in IdLists :
          DeleteList(l)
          => /\ exc' = "none"
             /\ req'.method = "DELETE"
             /\ req'.path = l[Len(l)]]_vars

\* C20: an update whose request fails leaves the document without "_id"
\* and, on the patch path, the cache without the entry it consumed; update
\* of a document without "_id" fails with MissingIDError; and once "_id" is
\* assigned again the request update would send is the full-body POST.
C20_FailedUpdateNotRestored ==
    [][/\ \A d \in DocObjs, net \in BOOLEAN :
             (Update(d, net) /\ HasId(d) /\ exc' = "TransportError")
             => /\ docs'[d]._id = None
                /\ req'.method = "PATCH" => IDKey(docs[d]._id) \notin DOMAIN _DOC_CACHE'
                /\ req'.method = "POST" => _DOC_CACHE' = _DOC_CACHE
                /\ srv' = srv
       /\ \A d \in DocObjs, net \in BOOLEAN :
             (/\ exc = "TransportError"
              /\ req.method \in {"PATCH", "POST"}
              /\ req.path # 0
              /\ docs[d].kind # "none"
              /\ docs[d]._id = None
              /\ Update(d, net))
             => exc' = "MissingIDError" /\ req' = NoReq
       /\ \A d \in DocObjs :
             RestoreId(d)
             => /\ HasId(d)'
                /\ UpdateRequest(d)'.method = "POST"]_vars

\* A PATCH was rejected: the document that sent it has no "_id" and the
\* cache has no entry for the identity of the request.
C20_Witness ==
    /\ exc = "TransportError"
    /\ req.method = "PATCH"
    /\ status = "conflict"
    /\ \E d \in DocObjs : docs[d].kind # "none" /\ docs[d]._id = None
    /\ IDKey([id |-> req.path, version |-> req.ifmatch]) \notin DOMAIN _DOC_CACHE

----------------------------------------------------------------------------
\* _fill_pointers on the raw documents of a response.

\* The nesting depth of the values of a raw document.
MaxDepth == 2

\* A JSON value: a leaf ("tok" a string that starts with "@filetree/ref:",
\* "str" any other string, "att" an Attachment) or a container ("dict",
\* "list") with its values in c; the n-th value of a dict is the value of
\* its n-th key.
Node(t, c) == [t |-> t, c |-> c]

Leaves == {Node("tok", <<>>), Node("str", <<>>)}

Attachment == Node("att", <<>>)

\* The dicts of at most one key and the lists of at most two items over S.
DictsOver(S) == {Node("dict", <<>>)} \cup {Node("dict", <<x>>) : x \in S}

ListsOver(S) ==
    {Node("list", <<>>)} \cup {Node("list", <<x>>) : x \in S}
        \cup {Node("list", <<x, y>>) : x \in S, y \in S}

RECURSIVE Trees(_)
Trees(n) ==
    IF n = 0 THEN Leaves
    ELSE LET S == Trees(n - 1) IN Leaves \cup DictsOver(S) \cup ListsOver(S)

\* The raw documents: dicts, as the service sends them.
RawDocs == DictsOver(Trees(MaxDepth))

NotFilled == Node("none", <<>>)

\* _fill_pointers(doc, pointers), pointers holding every token of doc.
\* The items of a list are replaced when they are tokens, then each item
\* is passed to _fill_pointers, which returns at once unless it is a dict.
RECURSIVE _fill_pointers(_)
_fill_pointers(doc) ==
    IF doc.t # "dict" THEN doc
    ELSE [doc EXCEPT !.c =
            [k \in DOMAIN doc.c |->
               LET v == doc.c[k]
               IN  CASE v.t = "tok" -> Attachment
                     [] v.t = "dict" -> _fill_pointers(v)
                     [] v.t = "list" ->
                          [v EXCEPT !.c =
                             [n \in DOMAIN v.c |->
                                _fill_pointers(IF v.c[n].t = "tok"
                                               THEN Attachment ELSE v.c[n])]]
                     [] OTHER -> v]]

InitFill ==
    /\ MainIdle /\ QueryIdle /\ PagesIdle /\ IDIdle /\ ThreadsIdle
    /\ tree \in RawDocs
    /\ filled = NotFilled

\* DocsQueryIterator.parse_data / Collection.get_by_id on one raw document
FillRawDoc ==
    /\ filled = NotFilled
    /\ filled' = _fill_pointers(tree)
    /\ UNCHANGED <<main, tree, qargs, params, pager, idpair, idcmp, pc, inflight>>

NextFill == FillRawDoc

SpecFill == InitFill /\ [][NextFill]_vars

RECURSIVE HasToken(_)
HasToken(x) == x.t = "tok" \/ \E n \in DOMAIN x.c : HasToken(x.c[n])

\* C13: after _fill_pointers has run on a raw document, with a side-table
\* that holds every token, no token string remains anywhere in the
\* document.
C13_NoTokenRemains == filled # NotFilled => ~HasToken(filled)

----------------------------------------------------------------------------
\* The request parameters of a query.

\* The arguments of Collection.query. "None" is None and "" the empty
\* string; "filter" is a non-empty filter string, "LuaScript" and
\* "LuaStoredQuery" are objects of these classes, "composite" an object of
\* LogicalOperator, Not, LuaShortQuery or LuaShortQueryComplex.
QueryArgs ==
    [query : {"None", "", "filter", "LuaScript", "LuaStoredQuery", "composite"},
     script : {"None", "", "src"},
     stored_query : {"None", "name"},
     stored_query_args : {"None", "args"},
     as_of : {"None", "2020-01-01", "datetime"}]

NoParams == [query |-> "unset", script |-> "unset", stored_query |-> "unset",
             stored_query_args |-> "unset", as_of |-> "unset", limit |-> "unset"]

\* The local query after the isinstance chain of DocsQueryIterator.__init__:
\* only the LuaScript branch sets it to None.
QueryParam(q) ==
    CASE q.query = "LuaScript" -> "None"
      [] q.query = "LuaStoredQuery" -> "LuaStoredQuery"
      [] q.query = "composite" -> "str(composite)"
      [] q.query = "filter" -> "str(filter)"
      [] OTHER -> q.query

ScriptParam(q) == IF q.query = "LuaScript" THEN "query.script" ELSE q.script

StoredQueryParam(q) ==
    IF q.query = "LuaStoredQuery" THEN "query.name" ELSE q.stored_query

StoredQueryArgsParam(q) ==
    IF q.query = "LuaStoredQuery" THEN "json(query.args)" ELSE q.stored_query_args

AsOfParam(q) == IF q.as_of = "datetime" THEN "strftime(datetime)" ELSE q.as_of

\* params = dict(...) of DocsQueryIterator.__init__
Params(q, limit) ==
    [query |-> QueryParam(q),
     script |-> ScriptParam(q),
     stored_query |-> StoredQueryParam(q),
     stored_query_args |-> StoredQueryArgsParam(q),
     as_of |-> AsOfParam(q),
     limit |-> limit]

InitQuery ==
    /\ MainIdle /\ FillIdle /\ PagesIdle /\ IDIdle /\ ThreadsIdle
    /\ qargs \in QueryArgs
    /\ params = NoParams

\* Collection.query(query, script, stored_query, stored_query_args, as_of)
Query ==
    /\ params = NoParams
    /\ params' = Params(qargs, "None")
    /\ UNCHANGED <<main, tree, filled, qargs, pager, idpair, idcmp, pc, inflight>>

\* Collection.get(query, script): the other arguments keep their defaults,
\* the limit is 1.
Get ==
    /\ params = NoParams
    /\ qargs.stored_query = "None"
    /\ qargs.stored_query_args = "None"
    /\ qargs.as_of = "None"
    /\ qargs.query \in {"", "filter", "LuaScript", "LuaStoredQuery", "composite"}
    /\ qargs.script \in {"", "src"}
    /\ params' = Params(qargs, "1")
    /\ UNCHANGED <<main, tree, filled, qargs, pager, idpair, idcmp, pc, inflight>>

NextQuery == Query \/ Get

SpecQuery == InitQuery /\ [][NextQuery]_vars

\* A parameter is set when it is neither None nor the empty string.
IsSet(x) == x \notin {"None", ""}

\* C14: of the three shapes query, script and stored_query (with
\* stored_query_args) at most one is set in the parameters built for a
\* query, whatever the arguments.
C14_OneShapeSet ==
    params # NoParams
    => LET q == IsSet(params.query)
           sc == IsSet(params.script)
           st == IsSet(params.stored_query) \/ IsSet(params.stored_query_args)
       IN  ~(q /\ sc) /\ ~(q /\ st) /\ ~(sc /\ st)

----------------------------------------------------------------------------
\* Iteration over the pages of a query.

MaxPages == 3

MaxPageSize == 3

MaxLimit == 5

\* limit=1 in Collection.get
GetLimit == 1

\* The pages the service holds for a query, each by its number of items.
\* A page that is followed by another one has at least one item.
PageSeqs ==
    UNION {{p \in [1..n -> 0..MaxPageSize] : \A j \in 1..(n - 1) : p[j] >= 1}
              : n \in 1..MaxPages}

\* The number of items of the first n pages; the items are numbered in
\* the order of the service, so that page n holds ItemsTo(p, n - 1) + 1
\* to ItemsTo(p, n).
RECURSIVE ItemsTo(_, _)
ItemsTo(p, n) == IF n = 0 THEN 0 ELSE ItemsTo(p, n - 1) + p[n]

PageItems(p, n) == [j \in 1..p[n] |-> ItemsTo(p, n - 1) + j]

NewPager(p) ==
    [pages |-> p, phase |-> "new", asked |-> 0, limit |-> 0, consumer |-> "none",
     requests |-> 0, buffer |-> <<>>, yielded |-> <<>>]

InitPages ==
    /\ MainIdle /\ FillIdle /\ QueryIdle /\ IDIdle /\ ThreadsIdle
    /\ pager \in {NewPager(p) : p \in PageSeqs}

PagesFrame == UNCHANGED <<main, tree, filled, qargs, params, idpair, idcmp, pc, inflight>>

\* The limit the iterator is built with; 0 stands for None.
LimitDropped(limit) == 0

LimitPassed(limit) == limit

\* for doc in Collection.query(..., limit=L)
IterQuery(L) ==
    /\ pager.phase = "new"
    /\ pager' = [pager EXCEPT !.phase = "iter", !.asked = L,
                              !.limit = LimitPassed(L), !.consumer = "all"]
    /\ PagesFrame

\* Collection.get(query): the first item of query(..., limit=1), or None
IterGet ==
    /\ pager.phase = "new"
    /\ pager' = [pager EXCEPT !.phase = "iter", !.asked = GetLimit,
                              !.limit = LimitPassed(GetLimit), !.consumer = "first"]
    /\ PagesFrame

LimitReached == pager.limit # 0 /\ Len(pager.yielded) >= pager.limit

\* The last response carried no cursor.
NoCursor == pager.requests = Len(pager.pages)

\* The iterator requests the next page: its buffer is empty, the limit is
\* not reached and the last response carried a cursor.
FetchPage ==
    /\ pager.phase = "iter"
    /\ pager.buffer = <<>>
    /\ ~LimitReached
    /\ ~NoCursor
    /\ pager' = [pager EXCEPT !.requests = @ + 1,
                              !.buffer = PageItems(pager.pages, pager.requests + 1)]
    /\ PagesFrame

\* The iterator yields the next buffered item.
YieldItem ==
    /\ pager.phase = "iter"
    /\ pager.buffer # <<>>
    /\ ~LimitReached
    /\ pager' = [pager EXCEPT !.yielded = Append(@, Head(pager.buffer)),
                              !.buffer = Tail(@)]
    /\ PagesFrame

\* The iteration ends: the limit is reached, or the buffer is empty and
\* there is no further page.
StopIteration ==
    /\ pager.phase = "iter"
    /\ LimitReached \/ (pager.buffer = <<>> /\ NoCursor)
    /\ pager' = [pager EXCEPT !.phase = "done"]
    /\ PagesFrame

NextPages ==
    \/ \E L \in 0..MaxLimit : IterQuery(L)
    \/ IterGet
    \/ FetchPage
    \/ YieldItem
    \/ StopIteration

SpecPages == InitPages /\ [][NextPages]_vars

Total == ItemsTo(pager.pages, Len(pager.pages))

\* The items an iteration with the limit asked for has to yield.
Expected == IF pager.asked = 0 \/ pager.asked > Total THEN Total ELSE pager.asked

\* The pages an iteration with the limit asked for has to read, from page
\* k on: up to the first page that completes the limit, or all of them.
RECURSIVE PagesFor(_)
PagesFor(k) ==
    IF k = Len(pager.pages) \/ (pager.asked # 0 /\ ItemsTo(pager.pages, k) >= pager.asked)
    THEN k ELSE PagesFor(k + 1)

----------------------------------------------------------------------------
\* Comparison of identities.

\* The ID objects: _id, _version, _created and _updated as the service
\* sent them.
IDObjs ==
    [cls : {"ID"}, id : Ids, version : {1, 2},
     created : {"c1", "c2"}, updated : {"u1", "u2"}]

\* A value of another class.
NotAnID == [cls |-> "str", id |-> 1, version |-> 1, created |-> "c1", updated |-> "u1"]

NotCompared == [done |-> FALSE, eq |-> FALSE, ne |-> FALSE, hself |-> <<>>, hother |-> <<>>]

\* ID.__hash__: the hash of the tuple, a function of the tuple.
__hash__(self) == <<self.version, self.id>>

\* ID.__eq__
EqWithUpdated(self, other) ==
    IF other.cls # "ID" THEN FALSE
    ELSE <<self.version, self.id, self.updated>> = <<other.version, other.id, other.updated>>

__eq__(self, other) ==
    IF other.cls # "ID" THEN FALSE
    ELSE <<self.version, self.id>> = <<other.version, other.id>>

\* ID.__ne__
__ne__(self, other) ==
    IF other.cls # "ID" THEN FALSE
    ELSE ~__eq__(self, other)

InitID ==
    /\ MainIdle /\ FillIdle /\ QueryIdle /\ PagesIdle /\ ThreadsIdle
    /\ idpair \in IDObjs \X (IDObjs \cup {NotAnID})
    /\ idcmp = NotCompared

\* a == b, a != b, hash(a) and hash(b) for the pair <<a, b>>
Compare ==
    /\ ~idcmp.done
    /\ idcmp' = [done |-> TRUE,
                 eq |-> __eq__(idpair[1], idpair[2]),
                 ne |-> __ne__(idpair[1], idpair[2]),
                 hself |-> __hash__(idpair[1]),
                 hother |-> __hash__(idpair[2])]
    /\ UNCHANGED <<main, tree, filled, qargs, params, pager, idpair, pc, inflight>>

NextID == Compare

SpecID == InitID /\ [][NextID]_vars

\* C16: two IDs are equal exactly when their id and their version are
\* equal, whatever their created and updated; equal IDs have equal hashes;
\* a != b is the negation of a == b.
C16_EqualityOfIDs ==
    (idcmp.done /\ idpair[2].cls = "ID")
    => /\ idcmp.eq = (idpair[1].id = idpair[2].id /\ idpair[1].version = idpair[2].version)
       /\ idcmp.eq => idcmp.hself = idcmp.hother
       /\ idcmp.ne = ~idcmp.eq

\* Two IDs of the same id and version that differ in created and in
\* updated were compared and found equal.
C16_Witness ==
    /\ idcmp.done
    /\ idpair[2].cls = "ID"
    /\ idpair[1].id = idpair[2].id
    /\ idpair[1].version = idpair[2].version
    /\ idpair[1].created # idpair[2].created
    /\ idpair[1].updated # idpair[2].updated
    /\ idcmp.eq = TRUE
    /\ idcmp.ne = FALSE

----------------------------------------------------------------------------
\* Collection.update in two threads, without locking. Thread t updates
\* document object t; a thread can be pre-empted between any two
\* statements that read or write the shared cache, and while it waits for
\* its response.

Threads == DocObjs

\* The bodies the two threads hold.
ThreadBodies == {[k \in Keys |-> IF k = "a" THEN IntV(n) ELSE Abs] : n \in {1, 2}}

\* The identity of document 1 as the service holds it at the start.
HeldID == [id |-> 1, version |-> 1]

NoFlight == [_id |-> None, req |-> NoReq, status |-> "none", resp |-> None, exc |-> "none"]

\* Both document objects were fetched from document 1; the second may
\* have lost its "_id". The cache holds a baseline for the identity or not.
InitThreads ==
    /\ FillIdle /\ QueryIdle /\ PagesIdle /\ IDIdle
    /\ \E b1 \in ThreadBodies, b2 \in ThreadBodies, i2 \in {None, HeldID} :
          docs = [d \in DocObjs |->
                    IF d = 1 THEN [kind |-> "doc", _id |-> HeldID, body |-> b1]
                             ELSE [kind |-> "doc", _id |-> i2, body |-> b2]]
    /\ heap = [d \in DocObjs |-> EmptyHeap]
    /\ _DOC_CACHE \in {<<>>} \cup {CacheSet(<<>>, IDKey(HeldID), b) : b \in ThreadBodies}
    /\ \E b \in StoredBodies :
          srv = [i \in Ids |-> IF i = 1 THEN [st |-> "live", ver |-> 1, body |-> b]
                                       ELSE [st |-> "free", ver |-> 0, body |-> EmptyBody]]
    /\ req = NoReq
    /\ status = "none"
    /\ exc = "none"
    /\ fetched = [d \in DocObjs |-> NotFetched]
    /\ nops = 0
    /\ pc = [t \in Threads |-> "idle"]
    /\ inflight = [t \in Threads |-> NoFlight]

ThreadsFrame ==
    UNCHANGED <<heap, req, status, exc, fetched, nops,
                tree, filled, qargs, params, pager, idpair, idcmp>>

\* _id in _DOC_CACHE
AssumeBaseline(key) == TRUE

FoundBaseline(key) == key \in DOMAIN _DOC_CACHE

\* _id = doc.get("_id"); del doc["_id"]; if _id in _DOC_CACHE
Begin(t) ==
    /\ pc[t] = "idle"
    /\ IF docs[t]._id = None
       THEN /\ pc' = [pc EXCEPT ![t] = "failed"]
            /\ inflight' = [inflight EXCEPT ![t].exc = "MissingIDError"]
            /\ UNCHANGED docs
       ELSE /\ inflight' = [inflight EXCEPT ![t]._id = docs[t]._id]
            /\ docs' = [docs EXCEPT ![t]._id = IdDeleted(t)]
            /\ pc' = [pc EXCEPT ![t] = IF FoundBaseline(IDKey(docs[t]._id))
                                       THEN "patch" ELSE "post"]
    /\ UNCHANGED <<_DOC_CACHE, srv>>
    /\ ThreadsFrame

\* src = _DOC_CACHE[_id]; pdoc = ...; p = jsonpatch.make_patch(src, pdoc)
Diff(t) ==
    /\ pc[t] = "patch"
    /\ LET key == IDKey(inflight[t]._id)
       IN  IF key \in DOMAIN _DOC_CACHE
           THEN /\ inflight' = [inflight EXCEPT ![t].req =
                      PatchRequest(inflight[t]._id,
                                   MakePatch(CacheView(key), Encode(docs[t].body)))]
                /\ pc' = [pc EXCEPT ![t] = "del"]
           ELSE /\ inflight' = [inflight EXCEPT ![t].exc = "KeyError"]
                /\ pc' = [pc EXCEPT ![t] = "failed"]
    /\ UNCHANGED <<docs, _DOC_CACHE, srv>>
    /\ ThreadsFrame

\* del _DOC_CACHE[_id]
Consume(t) ==
    /\ pc[t] = "del"
    /\ LET key == IDKey(inflight[t]._id)
       IN  IF key \in DOMAIN _DOC_CACHE
           THEN /\ _DOC_CACHE' = CacheDel(_DOC_CACHE, key)
                /\ pc' = [pc EXCEPT ![t] = "send"]
                /\ UNCHANGED inflight
           ELSE /\ inflight' = [inflight EXCEPT ![t].exc = "KeyError"]
                /\ pc' = [pc EXCEPT ![t] = "failed"]
                /\ UNCHANGED _DOC_CACHE
    /\ UNCHANGED <<docs, srv>>
    /\ ThreadsFrame

\* self._client.request(...): the request reaches the service, which
\* answers it; the thread waits for the response.
Send(t, net) ==
    /\ pc[t] \in {"send", "post"}
    /\ LET r == IF pc[t] = "send" THEN inflight[t].req
                ELSE FullBodyRequest(inflight[t]._id, Encode(docs[t].body))
       IN  /\ inflight' = [inflight EXCEPT
                 ![t].req = r,
                 ![t].status = ServerStatus(r, net),
                 ![t].resp = IF ServerStatus(r, net) = "ok"
                             THEN [id |-> Target(r),
                                   version |-> ServerNext(r, net)[Target(r)].ver]
                             ELSE None]
           /\ srv' = ServerNext(r, net)
    /\ pc' = [pc EXCEPT ![t] = "wait"]
    /\ UNCHANGED <<docs, _DOC_CACHE>>
    /\ ThreadsFrame

\* The response arrives: ID.inject(resp) and the lines after it, or the
\* exception of the transport.
Receive(t) ==
    /\ pc[t] = "wait"
    /\ IF inflight[t].status = "ok"
       THEN /\ docs' = [docs EXCEPT ![t]._id = inflight[t].resp]
            /\ _DOC_CACHE' = CacheSet(_DOC_CACHE, IDKey(inflight[t].resp),
                                      DeepCopy(docs[t].body))
            /\ pc' = [pc EXCEPT ![t] = "done"]
            /\ UNCHANGED inflight
       ELSE /\ inflight' = [inflight EXCEPT ![t].exc = "TransportError"]
            /\ pc' = [pc EXCEPT ![t] = "failed"]
            /\ UNCHANGED <<docs, _DOC_CACHE>>
    /\ UNCHANGED srv
    /\ ThreadsFrame

NextThreads ==
    \/ \E t \in Threads : Begin(t)
    \/ \E t \in Threads : Diff(t)
    \/ \E t \in Threads : Consume(t)
    \/ \E t \in Threads, net \in BOOLEAN : Send(t, net)
    \/ \E t \in Threads : Receive(t)

SpecThreads == InitThreads /\ [][NextThreads]_vars

\* Thread t has removed the baseline and has not yet had its response.
InRoundTrip(t) == pc[t] \in {"send", "wait"} /\ inflight[t].req.method = "PATCH"

\* C19: while an update is in its round trip on the patch path, the cache
\* has no entry for its identity; an update of an equal identity that
\* starts then finds no baseline, and what it sends is the POST of its
\* whole body.
C19_NoBaselineDuringRoundTrip ==
    [][/\ \A t \in Threads :
             InRoundTrip(t)' => IDKey(inflight'[t]._id) \notin DOMAIN _DOC_CACHE'
       /\ \A t \in Threads, u \in Threads :
             (/\ t # u
              /\ InRoundTrip(u)
              /\ HasId(t)
              /\ docs[t]._id = inflight[u]._id
              /\ Begin(t))
             => pc'[t] = "post"
       /\ \A t \in Threads, net \in BOOLEAN :
             (pc[t] = "post" /\ Send(t, net))
             => /\ inflight'[t].req.method = "POST"
                /\ inflight'[t].req.path = inflight[t]._id.id
                /\ inflight'[t].req.json = Encode(docs[t].body)]_vars

\* Thread 1 found a baseline, removed it and waits; thread 2 started
\* meanwhile with the same identity, and the service has accepted its POST
\* of the whole body.
C19_Witness ==
    /\ pc[1] = "send"
    /\ inflight[1].req.method = "PATCH"
    /\ pc[2] = "wait"
    /\ inflight[2].req.method = "POST"
    /\ inflight[2].status = "ok"
    /\ inflight[2]._id = inflight[1]._id

====
